---- MODULE Spec2Model ----
(***************************************************************************)
(* fks_config: generate(input, output, runtime) reads a YAML file, takes   *)
(* its first document, deserializes it into AppConfig with path tracking,  *)
(* derives max_loss, renders KEY=VALUE lines and writes them to output.    *)
(*                                                                         *)
(* Text is a sequence of tokens; a token stands for a substring: the       *)
(* literal prefix of a format string (ACCOUNT_SIZE=), one character of a   *)
(* rendered number, the line break, or a piece of the caller's label.      *)
(* An f64 is a sign, a class (finite, inf, nan) and, when finite, a        *)
(* magnitude in hundredths; a product is rounded to the nearest hundredth  *)
(* (ties to even), which stands for the rounding of the f64 product.       *)
(***************************************************************************)
EXTENDS Integers, Sequences, FiniteSets, TLC

VARIABLES input, output, runtime, fs, sink0, pc, raw, first, cfg, env_text, wpos, err

vars == <<input, output, runtime, fs, sink0, pc, raw, first, cfg, env_text, wpos, err>>

\* ------------------------------------------------------------------ bounds
\* longest caller-supplied label, in tokens
MaxLabelLen == 2
\* longest runtimes list of a document
MaxRuntimes == 2
\* most tokens one write(2) call of write_all accepts
MaxChunk == 8

\* ------------------------------------------------------------- f64 values
NL == "\n"

None == [some |-> FALSE]

Some(x) == [some |-> TRUE, v |-> x]

Fin(neg, mag) == [cls |-> "fin", neg |-> neg, mag |-> mag]

Inf(neg) == [cls |-> "inf", neg |-> neg, mag |-> 0]

NaN == [cls |-> "nan", neg |-> FALSE, mag |-> 0]

\* p / 100 rounded to the nearest integer, ties to even
RoundDiv(p) ==
    LET q == p \div 100
        r == p % 100
    IN  IF r > 50 THEN q + 1
        ELSE IF r = 50 THEN q + (q % 2)
        ELSE q

\* the f64 product a * b
FMul(a, b) ==
    IF a.cls = "nan" \/ b.cls = "nan" THEN NaN
    ELSE IF a.cls = "inf" \/ b.cls = "inf"
         THEN IF (a.cls = "fin" /\ a.mag = 0) \/ (b.cls = "fin" /\ b.mag = 0)
              THEN NaN
              ELSE Inf(a.neg # b.neg)
    ELSE Fin(a.neg # b.neg, RoundDiv(a.mag * b.mag))

DigitChars == <<"0", "1", "2", "3", "4", "5", "6", "7", "8", "9">>

RECURSIVE Digits(_)
\* the decimal digits of a natural number, most significant first
Digits(n) ==
    IF n < 10 THEN <<DigitChars[n + 1]>>
    ELSE Digits(n \div 10) \o <<DigitChars[(n % 10) + 1]>>

\* Display of an f64: shortest decimal that reads back, no exponent
FmtF64(x) ==
    IF x.cls = "nan" THEN <<"NaN">>
    ELSE IF x.cls = "inf" THEN (IF x.neg THEN <<"-">> ELSE <<>>) \o <<"inf">>
    ELSE LET f == x.mag % 100
             frac == IF f = 0 THEN <<>>
                     ELSE IF f % 10 = 0 THEN <<".", DigitChars[(f \div 10) + 1]>>
                     ELSE <<".", DigitChars[(f \div 10) + 1], DigitChars[(f % 10) + 1]>>
         IN  (IF x.neg THEN <<"-">> ELSE <<>>) \o Digits(x.mag \div 100) \o frac

\* ------------------------------------------------------------ YAML values
Absent == [t |-> "absent"]

YStr(s) == [t |-> "str", s |-> s]

YNum(f) == [t |-> "num", f |-> f]

YInt(n) == [t |-> "int", n |-> n]

YSeq(q) == [t |-> "seq", q |-> q]

YMap(m) == [t |-> "map", m |-> m]

\* ------------------------------------------------- deserialization results
Ok(v) == [ok |-> TRUE, v |-> v, path |-> <<>>, cause |-> <<>>]

Err(path, cause) == [ok |-> FALSE, v |-> None, path |-> path, cause |-> cause]

Key(k) == [seg |-> "map", key |-> k, index |-> 0]

Idx(i) == [seg |-> "seq", key |-> "", index |-> i]

U16Max == 65535

\* a required f64 field: a number, anything else is a type error at its path
DeF64(y, chain) ==
    IF y.t = "num" THEN Ok(y.f)
    ELSE IF y.t = "int" THEN Ok(Fin(y.n < 0, 100 * (IF y.n < 0 THEN -y.n ELSE y.n)))
    ELSE Err(chain, <<"invalid type">>)

\* master_port: u16
DeU16(y, chain) ==
    IF y.t # "int" THEN Err(chain, <<"invalid type">>)
    ELSE IF y.n < 0 \/ y.n > U16Max THEN Err(chain, <<"invalid value">>)
    ELSE Ok(y.n)

\* sim_latency_ms: Option<u64>, #[serde(default)]
DeOptU64(y, chain) ==
    IF y.t = "absent" THEN Ok(None)
    ELSE IF y.t # "int" THEN Err(chain, <<"invalid type">>)
    ELSE IF y.n < 0 THEN Err(chain, <<"invalid value">>)
    ELSE Ok(Some(y.n))

\* vix_gate: Option<f64>, #[serde(default)]
DeOptF64(y, chain) ==
    IF y.t = "absent" THEN Ok(None)
    ELSE LET r == DeF64(y, chain) IN IF r.ok THEN Ok(Some(r.v)) ELSE r

\* the first failing result of a sequence of results, or the last one
RECURSIVE FirstErr(_)
FirstErr(rs) ==
    IF Len(rs) = 1 \/ ~rs[1].ok THEN rs[1] ELSE FirstErr(Tail(rs))

\* a missing required field: raised by the struct's visitor once the map has
\* been walked, so the tracked path is the one of the struct itself
MissingField(chain, name) == Err(chain, <<"missing field ", name>>)

\* AccountConfig { size: f64, risk_per_trade: f64 }
DeAccount(y, chain) ==
    IF y.t # "map" THEN Err(chain, <<"invalid type">>)
    ELSE LET size == IF y.m.size.t = "absent" THEN Ok(None)
                     ELSE DeF64(y.m.size, chain \o <<Key("size")>>)
             risk == IF y.m.risk_per_trade.t = "absent" THEN Ok(None)
                     ELSE DeF64(y.m.risk_per_trade, chain \o <<Key("risk_per_trade")>>)
             walk == FirstErr(<<size, risk>>)
         IN  IF ~walk.ok THEN walk
             ELSE IF y.m.size.t = "absent" THEN MissingField(chain, "size")
             ELSE IF y.m.risk_per_trade.t = "absent"
                  THEN MissingField(chain, "risk_per_trade")
             ELSE Ok([size |-> size.v, risk_per_trade |-> risk.v])

\* NetworkConfig { master_port: u16, sim_latency_ms: Option<u64> }
DeNetwork(y, chain) ==
    IF y.t # "map" THEN Err(chain, <<"invalid type">>)
    ELSE LET port == IF y.m.master_port.t = "absent" THEN Ok(None)
                     ELSE DeU16(y.m.master_port, chain \o <<Key("master_port")>>)
             lat  == DeOptU64(y.m.sim_latency_ms, chain \o <<Key("sim_latency_ms")>>)
             walk == FirstErr(<<port, lat>>)
         IN  IF ~walk.ok THEN walk
             ELSE IF y.m.master_port.t = "absent"
                  THEN MissingField(chain, "master_port")
             ELSE Ok([master_port |-> port.v, sim_latency_ms |-> lat.v])

\* enum RuntimeKind { Python, Rust, Node }, #[serde(rename_all = "lowercase")]
RuntimeKind == {"Python", "Rust", "Node"}

\* the serialized name of a variant
Lowercase(variant) ==
    CASE variant = "Python" -> "python"
      [] variant = "Rust" -> "rust"
      [] variant = "Node" -> "node"

\* without rename_all the variant names themselves would be accepted too
DeRuntimeKindAnyCase(y, chain) ==
    IF y.t # "str" THEN Err(chain, <<"invalid type">>)
    ELSE IF \E k \in RuntimeKind : y.s \in {k, Lowercase(k)}
         THEN Ok(CHOOSE k \in RuntimeKind : y.s \in {k, Lowercase(k)})
    ELSE Err(chain, <<"unknown variant ", y.s>>)

\* a variant is named by its lowercase name, anything else is unknown
DeRuntimeKind(y, chain) ==
    IF y.t # "str" THEN Err(chain, <<"invalid type">>)
    ELSE IF \E k \in RuntimeKind : Lowercase(k) = y.s
         THEN Ok(CHOOSE k \in RuntimeKind : Lowercase(k) = y.s)
    ELSE Err(chain, <<"unknown variant ", y.s>>)

\* Vec<RuntimeKind>: the elements in order, stopping at the first error
DeRuntimes(y, chain) ==
    IF y.t # "seq" THEN Err(chain, <<"invalid type">>)
    ELSE LET rs == [i \in 1..Len(y.q) |-> DeRuntimeKind(y.q[i], chain \o <<Idx(i - 1)>>)]
         IN  IF Len(rs) > 0 /\ ~FirstErr(rs).ok THEN FirstErr(rs)
             ELSE Ok([i \in 1..Len(rs) |-> rs[i].v])

\* AppConfig { account, network, runtimes, vix_gate }: the values are visited
\* in document order, then the missing required fields are reported in
\* declaration order
DeAppConfig(doc) ==
    IF doc.t # "map" THEN Err(<<>>, <<"invalid type">>)
    ELSE LET m == doc.m
             account  == IF m.account.t = "absent" THEN Ok(None)
                         ELSE DeAccount(m.account, <<Key("account")>>)
             network  == IF m.network.t = "absent" THEN Ok(None)
                         ELSE DeNetwork(m.network, <<Key("network")>>)
             runtimes == IF m.runtimes.t = "absent" THEN Ok(None)
                         ELSE DeRuntimes(m.runtimes, <<Key("runtimes")>>)
             vix_gate == DeOptF64(m.vix_gate, <<Key("vix_gate")>>)
             walk == FirstErr(<<account, network, runtimes, vix_gate>>)
         IN  IF ~walk.ok THEN walk
             ELSE IF m.account.t = "absent" THEN MissingField(<<>>, "account")
             ELSE IF m.network.t = "absent" THEN MissingField(<<>>, "network")
             ELSE IF m.runtimes.t = "absent" THEN MissingField(<<>>, "runtimes")
             ELSE Ok([account |-> account.v, network |-> network.v,
                      runtimes |-> runtimes.v, vix_gate |-> vix_gate.v])

RECURSIVE PathToString(_)
\* Display of Path: a dot for the root, keys joined by dots, indices in brackets
PathToString(path) ==
    IF path = <<>> THEN <<".">>
    ELSE LET last == path[Len(path)]
             init == SubSeq(path, 1, Len(path) - 1)
             seg == IF last.seg = "seq" THEN <<"[">> \o Digits(last.index) \o <<"]">>
                    ELSE <<last.key>>
         IN  IF init = <<>> THEN seg
             ELSE IF last.seg = "seq" THEN PathToString(init) \o seg
             ELSE PathToString(init) \o <<".">> \o seg

\* ------------------------------------------------------------- rendering
\* the factor risk_per_trade dropped
MaxLossOfSizeOnly(c) == c.account.size

\* let max_loss = cfg.account.size * cfg.account.risk_per_trade
MaxLoss(c) == FMul(c.account.size, c.account.risk_per_trade)

\* cfg.network.sim_latency_ms.map(|v| v.to_string()).unwrap_or_default()
SimLatencyValue(c) ==
    IF c.network.sim_latency_ms.some THEN Digits(c.network.sim_latency_ms.v) ELSE <<>>

\* the vec![...] of the five lines that are always pushed
BaseLines(c) ==
    << <<"ACCOUNT_SIZE=">> \o FmtF64(c.account.size),
       <<"RISK_PER_TRADE=">> \o FmtF64(c.account.risk_per_trade),
       <<"MAX_LOSS_PER_TRADE=">> \o FmtF64(MaxLoss(c)),
       <<"MASTER_PORT=">> \o Digits(c.network.master_port),
       <<"SIM_LATENCY_MS=">> \o SimLatencyValue(c) >>

\* if let Some(vix) = cfg.vix_gate { env_lines.push(...) }
VixLines(c) ==
    IF c.vix_gate.some THEN << <<"VIX_GATE=">> \o FmtF64(c.vix_gate.v) >> ELSE <<>>

\* if let Some(rt) = runtime { env_lines.push(...) }
RuntimeLines(rt) ==
    IF rt.some THEN << <<"TARGET_RUNTIME=">> \o rt.v >> ELSE <<>>

EnvLines(c, rt) == BaseLines(c) \o VixLines(c) \o RuntimeLines(rt)

RECURSIVE Join(_)
\* env_lines.join(NL)
Join(lines) ==
    IF lines = <<>> THEN <<>>
    ELSE IF Len(lines) = 1 THEN lines[1]
    ELSE lines[1] \o <<NL>> \o Join(Tail(lines))

\* env_lines.join(NL) + NL
EnvText(c, rt) == Join(EnvLines(c, rt)) \o <<NL>>

\* ----------------------------------------------------------------- errors
\* the context without the path
ReadErrorNoPath(path) ==
    [msg |-> "reading input config: ", at |-> <<>>, cause |-> <<"io error">>]

\* with_context(|| format!("reading input config: {}", input.display()))
ReadError(path) ==
    [msg |-> "reading input config: ", at |-> <<path>>, cause |-> <<"io error">>]

\* anyhow!("empty yaml")
EmptyError == [msg |-> "empty yaml", at |-> <<>>, cause |-> <<>>]

\* anyhow!("parsing yaml at {}: {}", e.path().to_string(), e); the Display of
\* e repeats the path before the cause unless the path is the root
ParseError(e) ==
    [msg |-> "parsing yaml at ", at |-> PathToString(e.path),
     cause |-> IF e.path = <<>> THEN e.cause
               ELSE PathToString(e.path) \o <<": ">> \o e.cause]

\* with_context(|| format!("writing env output: {}", output.display()))
WriteError(path) ==
    [msg |-> "writing env output: ", at |-> <<path>>, cause |-> <<"io error">>]

\* ------------------------------------------------------------------ files
NoFile == [exists |-> FALSE, data |-> <<>>]

File(data) == [exists |-> TRUE, data |-> data]

Min(a, b) == IF a < b THEN a ELSE b

\* ---------------------------------------------------------------- actions
\* fs::read_to_string(input) fails: the error is returned at once
ReadFail ==
    /\ pc = "read"
    /\ ~fs[input].exists
    /\ err' = Some(ReadError(input))
    /\ pc' = "failed"
    /\ UNCHANGED <<input, output, runtime, fs, sink0, raw, first, cfg, env_text, wpos>>

\* fs::read_to_string(input) succeeds
ReadOk ==
    /\ pc = "read"
    /\ fs[input].exists
    /\ raw' = Some(fs[input].data)
    /\ pc' = "first"
    /\ UNCHANGED <<input, output, runtime, fs, sink0, first, cfg, env_text, wpos, err>>

\* docs.next() is None
NoDocument ==
    /\ pc = "first"
    /\ raw.v = <<>>
    /\ err' = Some(EmptyError)
    /\ pc' = "failed"
    /\ UNCHANGED <<input, output, runtime, fs, sink0, raw, first, cfg, env_text, wpos>>

\* docs.next() is the first document; the others are never looked at
FirstDocument ==
    /\ pc = "first"
    /\ raw.v # <<>>
    /\ first' = Some(raw.v[1])
    /\ pc' = "deserialize"
    /\ UNCHANGED <<input, output, runtime, fs, sink0, raw, cfg, env_text, wpos, err>>

\* deserialize(first) fails
DeserializeFail ==
    /\ pc = "deserialize"
    /\ ~DeAppConfig(first.v).ok
    /\ err' = Some(ParseError(DeAppConfig(first.v)))
    /\ pc' = "failed"
    /\ UNCHANGED <<input, output, runtime, fs, sink0, raw, first, cfg, env_text, wpos>>

\* deserialize(first) yields the AppConfig
DeserializeOk ==
    /\ pc = "deserialize"
    /\ DeAppConfig(first.v).ok
    /\ cfg' = Some(DeAppConfig(first.v).v)
    /\ pc' = "render"
    /\ UNCHANGED <<input, output, runtime, fs, sink0, raw, first, env_text, wpos, err>>

\* max_loss, env_lines and the joined text: the argument of fs::write
Render ==
    /\ pc = "render"
    /\ env_text' = Some(EnvText(cfg.v, runtime))
    /\ pc' = "create"
    /\ UNCHANGED <<input, output, runtime, fs, sink0, raw, first, cfg, wpos, err>>

\* fs::write: File::create(output) fails, the path is left alone
CreateFail ==
    /\ pc = "create"
    /\ err' = Some(WriteError(output))
    /\ pc' = "failed"
    /\ UNCHANGED <<input, output, runtime, fs, sink0, raw, first, cfg, env_text, wpos>>

\* fs::write: File::create(output) creates the file or truncates it
CreateOk ==
    /\ pc = "create"
    /\ fs' = [fs EXCEPT ![output] = File(<<>>)]
    /\ wpos' = 0
    /\ pc' = "write"
    /\ UNCHANGED <<input, output, runtime, sink0, raw, first, cfg, env_text, err>>

\* fs::write: one write call of write_all stores the next n tokens
WriteChunk ==
    /\ pc = "write"
    /\ wpos < Len(env_text.v)
    /\ \E n \in {Min(MaxChunk, Len(env_text.v) - wpos), Len(env_text.v) - wpos} :
          /\ fs' = [fs EXCEPT ![output] =
                       File(@.data \o SubSeq(env_text.v, wpos + 1, wpos + n))]
          /\ wpos' = wpos + n
    /\ UNCHANGED <<input, output, runtime, sink0, pc, raw, first, cfg, env_text, err>>

\* fs::write: a write call of write_all fails, what was stored stays
WriteFail ==
    /\ pc = "write"
    /\ wpos < Len(env_text.v)
    /\ err' = Some(WriteError(output))
    /\ pc' = "failed"
    /\ UNCHANGED <<input, output, runtime, fs, sink0, raw, first, cfg, env_text, wpos>>

\* fs::write returns Ok(()), and so does generate
WriteDone ==
    /\ pc = "write"
    /\ wpos = Len(env_text.v)
    /\ pc' = "done"
    /\ UNCHANGED <<input, output, runtime, fs, sink0, raw, first, cfg, env_text, wpos, err>>

Next ==
    \/ ReadFail
    \/ ReadOk
    \/ NoDocument
    \/ FirstDocument
    \/ DeserializeFail
    \/ DeserializeOk
    \/ Render
    \/ CreateFail
    \/ CreateOk
    \/ WriteChunk
    \/ WriteFail
    \/ WriteDone

\* ----------------------------------------------------------------- inputs
SeqsUpTo(S, n) == UNION {[1..k -> S] : k \in 0..n}

\* account.size: omitted, a string, -1, 2.5, 100000, .inf
SizeVals ==
    {Absent, YStr("big"), YInt(-1), YNum(Fin(FALSE, 250)), YInt(100000), YNum(Inf(FALSE))}

\* account.risk_per_trade: omitted, 0.02, 0.03, 1.5
RiskVals == {Absent, YNum(Fin(FALSE, 2)), YNum(Fin(FALSE, 3)), YNum(Fin(FALSE, 150))}

Accounts ==
    {Absent, YStr("none")}
        \cup {YMap([size |-> s, risk_per_trade |-> r]) : s \in SizeVals, r \in RiskVals}

Networks ==
    {Absent}
        \cup {YMap([master_port |-> p, sim_latency_ms |-> l]) :
                 p \in {Absent, YInt(9000), YInt(70000)}, l \in {Absent, YInt(250)}}

RuntimeNames == {"python", "rust", "node", "go", "Python"}

RuntimeLists ==
    {Absent} \cup {YSeq(q) : q \in SeqsUpTo({YStr(n) : n \in RuntimeNames}, MaxRuntimes)}

VixGates == {Absent, YNum(Fin(FALSE, 1850))}

Doc(a, n, r, v) == YMap([account |-> a, network |-> n, runtimes |-> r, vix_gate |-> v])

\* the pieces a caller-supplied label is made of: it is free text
LabelTokens == {"python", "zig", NL, "VIX_GATE=", "SIM_LATENCY_MS="}

Labels == {None} \cup {Some(l) : l \in SeqsUpTo(LabelTokens, MaxLabelLen)}

\* the output path before the call: no file, or an older file
Sinks == {NoFile, File(<<"OLD=", "1", NL>>)}

TestDoc ==
    Doc(YMap([size |-> YInt(100000), risk_per_trade |-> YNum(Fin(FALSE, 2))]),
        YMap([master_port |-> YInt(9000), sim_latency_ms |-> Absent]),
        YSeq(<<YStr("python")>>), Absent)

\* the state when generate(input, output, runtime) is entered
Start(file, label, sink) ==
    /\ input = "config/sim.yaml"
    /\ output = ".env.generated"
    /\ runtime = label
    /\ fs = [p \in {"config/sim.yaml", ".env.generated"} |->
                IF p = "config/sim.yaml" THEN file ELSE sink]
    /\ sink0 = sink
    /\ pc = "read"
    /\ raw = None
    /\ first = None
    /\ cfg = None
    /\ env_text = None
    /\ wpos = 0
    /\ err = None

\* one document with every combination of the field values above, no label
InitAnyDocument ==
    \E a \in Accounts, n \in Networks, r \in RuntimeLists, v \in VixGates, s \in Sinks :
        Start(File(<<Doc(a, n, r, v)>>), None, s)

\* one document that deserializes, with every combination of the rendered
\* fields and of the label
InitRendered ==
    \E sz \in SizeVals \ {Absent, YStr("big")}, r \in RiskVals \ {Absent},
       l \in {Absent, YInt(250)},
       q \in {<<YStr("python")>>, <<YStr("rust"), YStr("node")>>},
       v \in VixGates, lb \in Labels, s \in Sinks :
        Start(File(<<Doc(YMap([size |-> sz, risk_per_trade |-> r]),
                         YMap([master_port |-> YInt(9000), sim_latency_ms |-> l]),
                         YSeq(q), v)>>), lb, s)

\* no input file, no document in it, or two documents
InitOtherFiles ==
    \E f \in {NoFile, File(<<>>), File(<<TestDoc, YStr("x")>>), File(<<YStr("x"), TestDoc>>)},
       lb \in {None, Some(<<"python">>)}, s \in Sinks :
        Start(f, lb, s)

Init == InitAnyDocument \/ InitRendered \/ InitOtherFiles

Spec == Init /\ [][Next]_vars

\* ------------------------------------------------------ reading the output
RECURSIVE SplitLines(_)
\* the lines of a text: the pieces between line breaks, a final line break
\* ending the last line
SplitLines(t) ==
    IF t = <<>> THEN <<>>
    ELSE IF \E k \in 1..Len(t) : t[k] = NL
         THEN LET k == CHOOSE k \in 1..Len(t) :
                           t[k] = NL /\ \A j \in 1..(k - 1) : t[j] # NL
              IN  <<SubSeq(t, 1, k - 1)>> \o SplitLines(SubSeq(t, k + 1, Len(t)))
    ELSE <<t>>

KeyOrder ==
    <<"ACCOUNT_SIZE=", "RISK_PER_TRADE=", "MAX_LOSS_PER_TRADE=", "MASTER_PORT=",
      "SIM_LATENCY_MS=", "VIX_GATE=", "TARGET_RUNTIME=">>

\* the position in KeyOrder of the key a line starts with, 0 when it starts
\* with none
KeyIndex(line) ==
    IF line # <<>> /\ \E i \in 1..Len(KeyOrder) : KeyOrder[i] = line[1]
    THEN CHOOSE i \in 1..Len(KeyOrder) : KeyOrder[i] = line[1]
    ELSE 0

\* among lines, the ones that start with a key
LinesOf(ls, key) == {i \in 1..Len(ls) : ls[i] # <<>> /\ ls[i][1] = key}

\* the value of the first of the lines that starts with a key
ValueOf(ls, key) ==
    LET i == CHOOSE i \in LinesOf(ls, key) : \A j \in LinesOf(ls, key) : i <= j
    IN  Tail(ls[i])

RECURSIVE NatOf(_)
\* the number a sequence of decimal digits spells
NatOf(ds) ==
    IF ds = <<>> THEN 0
    ELSE 10 * NatOf(SubSeq(ds, 1, Len(ds) - 1))
            + (CHOOSE d \in 0..9 : DigitChars[d + 1] = ds[Len(ds)])

\* the f64 a rendered value reads back as
ParseF64(toks) ==
    LET neg  == toks # <<>> /\ toks[1] = "-"
        body == IF neg THEN Tail(toks) ELSE toks
    IN  IF body = <<"NaN">> THEN NaN
        ELSE IF body = <<"inf">> THEN Inf(neg)
        ELSE IF \E k \in 1..Len(body) : body[k] = "."
             THEN LET k == CHOOSE k \in 1..Len(body) : body[k] = "."
                      fr == SubSeq(body, k + 1, Len(body))
                  IN  Fin(neg, 100 * NatOf(SubSeq(body, 1, k - 1))
                                  + (IF Len(fr) = 1 THEN 10 * NatOf(fr) ELSE NatOf(fr)))
        ELSE Fin(neg, 100 * NatOf(body))

\* the written output
Sink == fs[output]

\* a document whose runtimes list holds a value other than python, rust, node
HasUnknownRuntime(doc) ==
    /\ doc.t = "map"
    /\ doc.m.runtimes.t = "seq"
    /\ \E i \in 1..Len(doc.m.runtimes.q) :
          doc.m.runtimes.q[i] \notin {YStr("python"), YStr("rust"), YStr("node")}

\* the data-model ranges: size positive, risk_per_trade in (0, 1]
InRange(account) ==
    /\ account.size.cls = "fin"
    /\ ~account.size.neg
    /\ account.size.mag > 0
    /\ account.risk_per_trade.cls = "fin"
    /\ ~account.risk_per_trade.neg
    /\ account.risk_per_trade.mag > 0
    /\ account.risk_per_trade.mag <= 100

\* a document that omits account.size and, once a size is given, deserializes
\* into an AppConfig within the data-model ranges
OmitsOnlyAccountSize(doc) ==
    /\ doc.t = "map"
    /\ doc.m.account.t = "map"
    /\ doc.m.account.m.size.t = "absent"
    /\ LET r == DeAppConfig([doc EXCEPT !.m.account.m.size = YInt(1)])
       IN  r.ok /\ InRange(r.v.account)

\* generate has returned Ok(()) for a document within the data-model ranges
DoneValid == pc = "done" /\ InRange(cfg.v.account)

\* the lines of the written output
SinkLines == SplitLines(Sink.data)

\* ----------------------------------------------------------------- claims
\* C1: when generate has returned, the output path holds either what it held
\* before the call or the complete rendered text (stated for the calls whose
\* document, if one was accepted, is within the data-model ranges).
C1_AllOrNothing ==
    (pc \in {"done", "failed"} /\ (cfg.some => InRange(cfg.v.account))) =>
        \/ Sink = sink0
        \/ env_text.some /\ Sink = File(env_text.v)

\* C2: a document that omits only account.size fails with a parse error whose
\* path is account.size.
C2_MissingSizePath ==
    (pc = "failed" /\ first.some /\ OmitsOnlyAccountSize(first.v)) =>
        /\ err.v.msg = "parsing yaml at "
        /\ err.v.at = <<"account", ".", "size">>

\* C3: when the input cannot be read, generate fails with the read error that
\* names the input path, and nothing was parsed, rendered or written.
C3_ReadErrorNamesInput ==
    ~fs[input].exists =>
        \/ pc = "read" /\ err = None
        \/ /\ pc = "failed"
           /\ err.some
           /\ err.v.msg = "reading input config: "
           /\ \E i \in 1..Len(err.v.at) : err.v.at[i] = input
           /\ raw = None /\ first = None /\ cfg = None /\ env_text = None
           /\ Sink = sink0

C3_Witness == pc = "failed" /\ ~fs[input].exists /\ runtime.some

\* C4: after a successful call the output is KEY=VALUE lines in the fixed key
\* order, the first four keys present, no key twice, ending with exactly one
\* line break.
C4_FixedOrderLines ==
    DoneValid =>
        LET t  == Sink.data
            ls == SinkLines
        IN  /\ Len(t) >= 2 /\ t[Len(t)] = NL /\ t[Len(t) - 1] # NL
            /\ Len(ls) >= 4
            /\ \A i \in 1..4 : KeyIndex(ls[i]) = i
            /\ \A i \in 1..Len(ls) : KeyIndex(ls[i]) > 0
            /\ \A i, j \in 1..Len(ls) : i < j => KeyIndex(ls[i]) < KeyIndex(ls[j])

\* C5: the output has exactly one SIM_LATENCY_MS line: with an empty value
\* when network.sim_latency_ms is omitted, with the decimal digits of n when
\* it is n.
C5_SimLatencyOnce ==
    DoneValid =>
        LET lat == first.v.m.network.m.sim_latency_ms
        IN  /\ Cardinality(LinesOf(SinkLines, "SIM_LATENCY_MS=")) = 1
            /\ ValueOf(SinkLines, "SIM_LATENCY_MS=")
                   = IF lat.t = "absent" THEN <<>> ELSE Digits(lat.n)

\* C6: the output has a VIX_GATE line exactly when the document sets vix_gate.
C6_VixGateIffSet ==
    DoneValid =>
        (LinesOf(SinkLines, "VIX_GATE=") # {} <=> first.v.m.vix_gate.t # "absent")

\* C7: with a label the output has exactly one line TARGET_RUNTIME=<label>,
\* the label verbatim; without one it has no TARGET_RUNTIME line.
C7_TargetRuntimeLine ==
    DoneValid =>
        IF runtime.some
        THEN Cardinality({i \in 1..Len(SinkLines) :
                             SinkLines[i] = <<"TARGET_RUNTIME=">> \o runtime.v}) = 1
        ELSE LinesOf(SinkLines, "TARGET_RUNTIME=") = {}

C9_AcceptedInRange == cfg.some => InRange(cfg.v.account)

\* C10: a runtimes list with a value other than python, rust, node is rejected
\* with a parse error and nothing is written; a list of those three values is
\* never the reason of a rejection and is accepted in its order.
C10_RuntimeKindClosed ==
    /\ (first.some /\ HasUnknownRuntime(first.v)) =>
           /\ pc \in {"deserialize", "failed"}
           /\ Sink = sink0
           /\ pc = "failed" => err.v.msg = "parsing yaml at "
    /\ (pc = "failed" /\ err.v.msg = "parsing yaml at " /\ err.v.at[1] = "runtimes") =>
           HasUnknownRuntime(first.v)
    /\ cfg.some =>
           LET q == first.v.m.runtimes.q
           IN  /\ Len(cfg.v.runtimes) = Len(q)
               /\ \A i \in 1..Len(q) :
                      <<q[i].s, cfg.v.runtimes[i]>>
                          \in {<<"python", "Python">>, <<"rust", "Rust">>, <<"node", "Node">>}

\* the second value of the list is the unknown one
C10_Witness ==
    /\ pc = "failed"
    /\ first.some
    /\ first.v.t = "map"
    /\ first.v.m.runtimes = YSeq(<<YStr("python"), YStr("go")>>)
    /\ err.v.at = <<"runtimes", "[", "1", "]">>

====
